---- MODULE Spec2Model ----
(***************************************************************************)
(* A model of create_problem.py: the interactive main() procedure, its     *)
(* input-validation loops, the three fetchers, the Codeforces identifier   *)
(* parser, the template renderer and the final file write.                 *)
(*                                                                         *)
(* Text is modelled as a sequence of tokens.  A token is either a single   *)
(* character (everything the user types is made of single characters) or a *)
(* literal fragment of the program text (such as "// " or "leetcode_p").   *)
(* The token "sup2" stands for the character U+00B2 (superscript two), for *)
(* which str.isdigit() is True and int() raises ValueError; "LONG298"      *)
(* stands for a run of 298 ordinary characters.                            *)
(***************************************************************************)
EXTENDS Integers, Sequences, FiniteSets, TLC

\* ------------------------------------------------------------------ bounds

\* Longest identifier drawn when the parser is exercised on its own.
MaxLen == 3
\* Largest number of extended-skeleton arguments the user may ask for.
MaxArgs == 1
\* Rejected inputs (re-prompts) allowed in one run.
MaxRejects == 1

\* ------------------------------------------------------------ text helpers

\* None, for a value that is a text or None.
Null == <<"<None>">>
\* None, for a value that is a non-negative integer or None.
NoneInt == -1

RECURSIVE Flatten(_)
Flatten(ss) == IF ss = <<>> THEN <<>> ELSE Head(ss) \o Flatten(Tail(ss))

RECURSIVE JoinWith(_, _)
\* sep.join(ss)
JoinWith(sep, ss) ==
  IF ss = <<>> THEN <<>>
  ELSE IF Len(ss) = 1 THEN Head(ss)
  ELSE Head(ss) \o sep \o JoinWith(sep, Tail(ss))

IsSpace(c) == c \in {" ", "\n"}

RECURSIVE LStrip(_)
LStrip(s) == IF s # <<>> /\ IsSpace(Head(s)) THEN LStrip(Tail(s)) ELSE s

RECURSIVE RStrip(_)
RStrip(s) ==
  IF s # <<>> /\ IsSpace(s[Len(s)]) THEN RStrip(SubSeq(s, 1, Len(s) - 1)) ELSE s

\* str.strip()
Strip(s) == RStrip(LStrip(s))

\* str.replace(a, b) for single characters a, b
Replace(s, a, b) == [i \in 1..Len(s) |-> IF s[i] = a THEN b ELSE s[i]]

\* str.lower() on the characters the model types
Lower(s) ==
  [i \in 1..Len(s) |-> CASE s[i] = "A" -> "a" [] s[i] = "L" -> "l" [] OTHER -> s[i]]

\* str.replace(c, "")
RECURSIVE Remove(_, _)
Remove(s, c) ==
  IF s = <<>> THEN <<>>
  ELSE IF Head(s) = c THEN Remove(Tail(s), c)
  ELSE <<Head(s)>> \o Remove(Tail(s), c)

\* The value int() gives each decimal digit.
DigitVal == [c \in {"0", "1", "2", "3", "4"} |->
               CASE c = "0" -> 0 [] c = "1" -> 1 [] c = "2" -> 2
                 [] c = "3" -> 3 [] c = "4" -> 4]

\* Characters int() reads as decimal digits.
IsDecimal(c) == c \in DOMAIN DigitVal

\* str.isdigit(): the decimal digits and also digit-like characters such as
\* the superscript two, which int() rejects.
IsDigit(c) == IsDecimal(c) \/ c = "sup2"

RECURSIVE DecValue(_, _)
DecValue(s, acc) ==
  IF s = <<>> THEN acc ELSE DecValue(Tail(s), 10 * acc + DigitVal[Head(s)])

\* Whether int(s) succeeds for an already stripped s: an optional sign and
\* then one or more decimal digits.
IntParses(s) ==
  LET body == IF s # <<>> /\ Head(s) \in {"-", "+"} THEN Tail(s) ELSE s
  IN  body # <<>> /\ \A i \in 1..Len(body) : IsDecimal(body[i])

\* int(s), where IntParses(s)
IntOf(s) ==
  IF Head(s) = "-" THEN 0 - DecValue(Tail(s), 0)
  ELSE IF Head(s) = "+" THEN DecValue(Tail(s), 0)
  ELSE DecValue(s, 0)

RECURSIVE Digits(_)
\* str(n) for n >= 0
Digits(n) ==
  LET d == n % 10
      c == CHOOSE x \in DOMAIN DigitVal : DigitVal[x] = d
  IN  IF n < 10 THEN <<c>> ELSE Digits(n \div 10) \o <<c>>

\* str(n)
IntStr(n) == IF n < 0 THEN <<"-">> \o Digits(0 - n) ELSE Digits(n)

\* ------------------------------------------ parse_codeforces_contest_and_index

\* The characters of user_input for which isdigit() holds, in order.
DigitsPart(s) ==
  LET RECURSIVE pick(_)
      pick(t) == IF t = <<>> THEN <<>>
                 ELSE IF IsDigit(Head(t)) THEN <<Head(t)>> \o pick(Tail(t))
                 ELSE pick(Tail(t))
  IN  pick(s)

\* The characters of user_input for which isdigit() does not hold, in order.
IndexPart(s) ==
  LET RECURSIVE pick(_)
      pick(t) == IF t = <<>> THEN <<>>
                 ELSE IF IsDigit(Head(t)) THEN pick(Tail(t))
                 ELSE <<Head(t)>> \o pick(Tail(t))
  IN  pick(s)

\* parse_codeforces_contest_and_index(user_input): the pair returned, or the
\* exception raised by int(digits_part).
ParseCf(s) ==
  LET d == DigitsPart(s)
      x == IndexPart(s)
  IN  IF d = <<>> \/ x = <<>>
        THEN [raises |-> FALSE, contest_id |-> NoneInt, problem_index |-> Null]
      ELSE IF \A i \in 1..Len(d) : IsDecimal(d[i])
        THEN [raises |-> FALSE, contest_id |-> DecValue(d, 0), problem_index |-> x]
      ELSE [raises |-> TRUE, contest_id |-> NoneInt, problem_index |-> Null]

\* ------------------------------------------------------------ HTTP outcomes

\* A JSON key that is absent.
Missing == <<"<missing>">>
\* A JSON array field that is null.
NullList == <<Null>>

\* len(v) > 300 truncates the statement.
TruncLen == 300

TokLen(t) == IF t = "LONG298" THEN 298 ELSE 1

RECURSIVE TextLen(_)
\* len(s)
TextLen(s) == IF s = <<>> THEN 0 ELSE TokLen(Head(s)) + TextLen(Tail(s))

RECURSIVE Prefix(_, _)
\* s[:n] (the texts of the model have a token boundary at n)
Prefix(s, n) ==
  IF s = <<>> \/ TokLen(Head(s)) > n THEN <<>>
  ELSE <<Head(s)>> \o Prefix(Tail(s), n - TokLen(Head(s)))

RECURSIVE SplitLines(_)
\* str.splitlines(): no line for an empty text, none after a final newline
SplitLines(s) ==
  IF s = <<>> THEN <<>>
  ELSE LET nl == {i \in 1..Len(s) : s[i] = "\n"}
       IN  IF nl = {} THEN <<s>>
           ELSE LET k == CHOOSE i \in nl : \A j \in nl : i <= j
                IN  <<SubSeq(s, 1, k - 1)>> \o SplitLines(SubSeq(s, k + 1, Len(s)))

\* Texts a server may send.
ShortText == <<"T">>
TwoLineText == <<"a", "\n", "b">>
LongText == <<"a", "\n", "LONG298", "b", "c">>

\* What requests.get() and the body can be for GET /problems/<id>.
LcResp(net, status, json, t, d, c) ==
  [net |-> net, status |-> status, json |-> json,
   title |-> t, difficulty |-> d, content |-> c]

LeetCodeResponses ==
  { LcResp("error", 0, "none", Missing, Missing, Missing),
    LcResp("ok", 404, "none", Missing, Missing, Missing),
    LcResp("ok", 200, "array", Missing, Missing, Missing),
    LcResp("ok", 200, "invalid", Missing, Missing, Missing),
    LcResp("ok", 200, "object", Missing, Missing, Missing),
    LcResp("ok", 200, "object", Null, ShortText, ShortText),
    LcResp("ok", 200, "object", ShortText, ShortText, TwoLineText),
    LcResp("ok", 200, "object", ShortText, Missing, LongText),
    LcResp("ok", 200, "object", ShortText, Null, ShortText),
    LcResp("ok", 200, "object", ShortText, ShortText, Null) }

\* dict.get(key, "")
GetOr(v, default) == IF v = Missing THEN default ELSE v

\* Python truthiness of a text or None
Truthy(v) == v # <<>> /\ v # Null

\* resp.json() on a body that is not JSON raises a JSONDecodeError, which is a
\* RequestException from requests 2.27 on and a plain ValueError before: the
\* handlers catch it in the first case only.
JsonErrorCaught == BOOLEAN

\* get_leetcode_problem(problem_id) on response r: what it returns (found
\* FALSE is None), what it prints, and the exception that escapes it.
GetLeetcodeProblem(r, caught) ==
  LET none(msgs) == [raises |-> "", found |-> FALSE, msgs |-> msgs,
                     title |-> <<>>, difficulty |-> <<>>, content |-> <<>>]
      boom(e) == [raises |-> e, found |-> FALSE, msgs |-> {},
                  title |-> <<>>, difficulty |-> <<>>, content |-> <<>>]
      title == GetOr(r.title, <<>>)
  IN  IF r.net = "error" THEN none({"lc_warn_request"})
      ELSE IF r.status # 200 THEN none({"lc_warn_status"})
      ELSE IF r.json = "invalid"
        THEN (IF caught THEN none({"lc_warn_request"}) ELSE boom("ValueError"))
      ELSE IF r.json = "array" THEN boom("AttributeError")
      ELSE IF ~Truthy(title) THEN none({})
      ELSE [raises |-> "", found |-> TRUE, msgs |-> {}, title |-> title,
            difficulty |-> GetOr(r.difficulty, <<>>),
            content |-> GetOr(r.content, <<>>)]

\* An entry of result.problems; contestId NoContest means the key is absent.
NoContest == -2
CfEntry(c, i, n, t) == [contestId |-> c, index |-> i, name |-> n, tags |-> t]

CfResp(net, json, status, has_result, has_problems, problems) ==
  [net |-> net, json |-> json, status |-> status, has_result |-> has_result,
   has_problems |-> has_problems, problems |-> problems]

Entry4A == CfEntry(4, <<"A">>, ShortText, << <<"d","p">>, <<"m">> >>)
Entry4ANullTags == CfEntry(4, <<"A">>, ShortText, NullList)
Entry41A == CfEntry(41, <<"A">>, Missing, Missing)
EntryNoContest == CfEntry(NoContest, <<"A">>, ShortText, <<>>)

CodeforcesResponses ==
  { CfResp("error", "none", "", FALSE, FALSE, <<>>),
    CfResp("ok", "array", "", FALSE, FALSE, <<>>),
    CfResp("ok", "invalid", "", FALSE, FALSE, <<>>),
    CfResp("ok", "object", "FAILED", FALSE, FALSE, <<>>),
    CfResp("ok", "object", "OK", FALSE, FALSE, <<>>),
    CfResp("ok", "object", "OK", TRUE, FALSE, <<>>),
    CfResp("ok", "object", "OK", TRUE, TRUE, <<>>),
    CfResp("ok", "object", "OK", TRUE, TRUE, <<Entry41A, Entry4A>>),
    CfResp("ok", "object", "OK", TRUE, TRUE, <<Entry4ANullTags>>),
    CfResp("ok", "object", "OK", TRUE, TRUE, <<EntryNoContest, Entry4A>>) }

RECURSIVE CfScan(_, _, _)
\* The loop over data["result"]["problems"].
CfScan(ps, contest, index) ==
  LET p == Head(ps)
      res(e, f, n, t) == [raises |-> e, found |-> f, msgs |-> {}, title |-> n, tags |-> t]
  IN  IF ps = <<>> THEN res("", FALSE, <<>>, <<>>)
      ELSE IF p.contestId = NoContest THEN res("KeyError", FALSE, <<>>, <<>>)
      ELSE IF p.contestId = contest /\ p.index = index
        THEN res("", TRUE, GetOr(p.name, <<>>),
                 IF p.tags = Missing THEN <<>> ELSE p.tags)
      ELSE CfScan(Tail(ps), contest, index)

\* codeforces_api_fetch(contest_id, problem_index) on response r.
CodeforcesApiFetch(r, caught, contest, index) ==
  LET res(e, msgs) == [raises |-> e, found |-> FALSE, msgs |-> msgs,
                       title |-> <<>>, tags |-> <<>>]
  IN  IF r.net = "error" THEN res("", {"cf_api_error_request"})
      ELSE IF r.json = "invalid"
        THEN (IF caught THEN res("", {"cf_api_error_request"}) ELSE res("ValueError", {}))
      ELSE IF r.json = "array" THEN res("AttributeError", {})
      ELSE IF r.status # "OK" THEN res("", {"cf_api_error_status"})
      ELSE IF ~r.has_result \/ ~r.has_problems THEN res("KeyError", {})
      ELSE CfScan(r.problems, contest, index)

\* What requests.get() and the page can be for a statement page.
PageResp(net, status, has_div, text) ==
  [net |-> net, status |-> status, has_div |-> has_div, text |-> text]

PageResponses ==
  { PageResp("error", 0, FALSE, <<>>),
    PageResp("ok", 403, FALSE, <<>>),
    PageResp("ok", 200, FALSE, <<>>),
    PageResp("ok", 200, TRUE, <<" ">>),
    PageResp("ok", 200, TRUE, <<" ", "a", "\n", "b", "\n">>),
    PageResp("ok", 200, TRUE, LongText) }

\* scrape_codeforces_statement / scrape_vjudge_statement on response r (the
\* two differ in the URL and the container looked for only).
ScrapeStatement(r) ==
  LET res(f, msgs, t) == [found |-> f, msgs |-> msgs, text |-> t]
  IN  IF r.net = "error" THEN res(FALSE, {"scrape_error"}, <<>>)
      ELSE IF r.status # 200 THEN res(FALSE, {"scrape_warn_http"}, <<>>)
      ELSE IF ~r.has_div THEN res(FALSE, {}, <<>>)
      ELSE res(TRUE, {}, Strip(r.text))

\* ---------------------------------------------------------------- rendering

\* Words the user may type, and the defaults of the prompts.
IntT == <<"i", "n", "t">>
VoidT == <<"v", "o", "i", "d">>
StringT == <<"s", "t", "r", "i", "n", "g">>
StdStringT == <<"s", "t", "d", ":", ":", "s", "t", "r", "i", "n", "g">>
JStringT == <<"S", "t", "r", "i", "n", "g">>
SolutionT == <<"S", "o", "l", "u", "t", "i", "o", "n">>
TestT == <<"t", "e", "s", "t">>
FooT == <<"F", "o", "o">>

Rule == " ==================================="

\* The lines one metadata entry <<k, v>> adds.
MetaEntryLines(k, v) ==
  IF k = "statement" /\ TextLen(v) > TruncLen
    THEN << <<"//", " ", k, " (truncated): ">>
              \o Replace(Prefix(v, TruncLen), "\n", " ") \o <<"...">> >>
  ELSE LET lines == SplitLines(v)
       IN  << <<"//", " ", k, ":">> >>
             \o [i \in 1..Len(lines) |-> <<"//", "    ">> \o lines[i]]

\* The comment block main() puts first when problem_metadata is not empty.
MetadataBlock(meta) ==
  IF meta = <<>> THEN <<>>
  ELSE << <<"//", Rule>>, <<"//", " Problem Metadata">> >>
         \o Flatten([i \in 1..Len(meta) |-> MetaEntryLines(meta[i][1], meta[i][2])])
         \o << <<"//", Rule, "\n">> >>

\* The exception the metadata loop raises on a value that is None: len(None)
\* for a statement, None.splitlines() otherwise; "" when it raises none.
MetadataRaises(meta) ==
  LET bad == {i \in 1..Len(meta) : meta[i][2] = Null}
      k == CHOOSE i \in bad : \A j \in bad : i <= j
  IN  IF bad = {} THEN ""
      ELSE IF meta[k][1] = "statement" THEN "TypeError" ELSE "AttributeError"

\* f"{a} arg{i+1}" for each argument, joined by ", "
ArgList(args) ==
  JoinWith(<<", ">>, [i \in 1..Len(args) |-> args[i] \o <<" arg">> \o IntStr(i)])

CppDummy(a) ==
  IF a = IntT THEN <<"0">>
  ELSE IF a \in {StringT, StdStringT} THEN <<"\"\"">>
  ELSE <<"/* ">> \o a \o <<" */">>

JavaDummy(a) ==
  IF a = IntT THEN <<"0">>
  ELSE IF a = JStringT THEN <<"\"\"">>
  ELSE <<"/* ">> \o a \o <<" */">>

CppMinimal ==
  << <<"#include <iostream>">>, <<"using namespace std;", "\n">>,
     <<"int main() {">>, <<"    return 0;">>, <<"}">> >>

CppExtended(ea) ==
  LET cn == ea.class_name
      rt == ea.return_type
      fn == ea.function_name
      args == ea.arguments
      dummy == JoinWith(<<", ">>, [i \in 1..Len(args) |-> CppDummy(args[i])])
  IN  << <<"#include <iostream>">>, <<"#include <vector>">>,
         <<"using namespace std;", "\n">>,
         <<"class ">> \o cn \o <<" {">>, <<"public:">>,
         IF args # <<>>
           THEN <<"    ">> \o rt \o <<" ">> \o fn \o <<"(">> \o ArgList(args) \o <<") {">>
           ELSE <<"    ">> \o rt \o <<" ">> \o fn \o <<"() {">>,
         <<"        // TODO: implement function logic here">> >>
      \o (IF rt = VoidT THEN <<>>
          ELSE IF rt = IntT THEN << <<"        return 0;">> >>
          ELSE << <<"        ">> \o rt \o <<" defaultVal = {}; // or other initialization">>,
                  <<"        return defaultVal;">> >>)
      \o << <<"    }">>, <<"};", "\n">>, <<"// Testing Function">>,
            <<"int main() {">>, <<"    ">> \o cn \o <<" sol;">>,
            IF args # <<>>
              THEN <<"    auto result = sol.">> \o fn \o <<"(">> \o dummy \o <<");">>
              ELSE <<"    auto result = sol.">> \o fn \o <<"();">> >>
      \o (IF rt # VoidT THEN << <<"    cout << \"Result: \" << result << endl;">> >>
          ELSE <<>>)
      \o << <<"    return 0;">>, <<"}">> >>

CMinimal ==
  << <<"#include <stdio.h>", "\n">>, <<"int main() {">>, <<"    return 0;">>, <<"}">> >>

CExtended ==
  << <<"#include <stdio.h>">>, <<"#include <stdlib.h>", "\n">>,
     <<"typedef struct {">>, <<"    // You can store fields here if needed">>,
     <<"} Solution;", "\n">>, <<"int testFunction(Solution* sol) {">>,
     <<"    // Implement logic">>, <<"    return 0;">>, <<"}", "\n">>,
     <<"int main() {">>, <<"    Solution sol;">>,
     <<"    int result = testFunction(&sol);">>,
     <<"    printf(\"Result: %d\\n\", result);">>, <<"    return 0;">>, <<"}">> >>

PyMinimal ==
  << <<"#!/usr/bin/env python3">>, <<"def main():">>,
     <<"    pass  # TODO: solve the problem here">>, <<>>,
     <<"if __name__ == '__main__':">>, <<"    main()">> >>

PyExtended ==
  << <<"#!/usr/bin/env python3">>, <<"def solve(*args):">>,
     <<"    # TODO: implement logic">>, <<"    return 0  # or something else", "\n">>,
     <<"def main():">>, <<"    # Example usage of solve()">>,
     <<"    result = solve()">>, <<"    print(f\"Result: {result}\")">>, <<>>,
     <<"if __name__ == '__main__':">>, <<"    main()">> >>

JavaMinimal ==
  << <<"public class Main {">>, <<"    public static void main(String[] args) {">>,
     <<"        // TODO: implement solution">>, <<"    }">>, <<"}">> >>

JavaExtended(ea) ==
  LET cn == ea.class_name
      rt == ea.return_type
      fn == ea.function_name
      args == ea.arguments
      dummy == JoinWith(<<", ">>, [i \in 1..Len(args) |-> JavaDummy(args[i])])
  IN  << <<"public class Main {">>, <<"    public static void main(String[] args) {">>,
         <<"        ">> \o cn \o <<" sol = new ">> \o cn \o <<"();">>,
         IF args # <<>>
           THEN <<"        ">> \o rt \o <<" result = sol.">> \o fn \o <<"(">> \o dummy \o <<");">>
           ELSE <<"        ">> \o rt \o <<" result = sol.">> \o fn \o <<"();">> >>
      \o (IF rt # VoidT THEN << <<"        System.out.println(\"Result: \" + result);">> >>
          ELSE <<>>)
      \o << <<"    }">>, <<"}", "\n">>, <<"class ">> \o cn \o <<" {">>,
            IF args # <<>>
              THEN <<"    public ">> \o rt \o <<" ">> \o fn \o <<"(">> \o ArgList(args) \o <<") {">>
              ELSE <<"    public ">> \o rt \o <<" ">> \o fn \o <<"() {">>,
            <<"        // TODO: implement logic here">> >>
      \o (IF rt = VoidT THEN <<>>
          ELSE IF rt = IntT THEN << <<"        return 0;">> >>
          ELSE IF rt = JStringT THEN << <<"        return \"\";">> >>
          ELSE << <<"        // Return some default value">>, <<"        return null;">> >>)
      \o << <<"    }">>, <<"}">> >>

\* The skeleton lines for the language and skeleton type (2 is minimal).
Skeleton(lang, skel, ea) ==
  CASE lang = "cpp" -> (IF skel = 2 THEN CppMinimal ELSE CppExtended(ea))
    [] lang = "c" -> (IF skel = 2 THEN CMinimal ELSE CExtended)
    [] lang = "py" -> (IF skel = 2 THEN PyMinimal ELSE PyExtended)
    [] OTHER -> (IF skel = 2 THEN JavaMinimal ELSE JavaExtended(ea))

\* code_lines as main() builds it.
RenderCode(meta, lang, skel, ea) == MetadataBlock(meta) \o Skeleton(lang, skel, ea)

\* What the write loop puts in the file: every line and a newline after it.
FileText(lines) == Flatten([i \in 1..Len(lines) |-> lines[i] \o <<"\n">>])

\* -------------------------------------------------------------------- paths

\* os.path.join(a, b)
PathJoin(a, b) ==
  IF b # <<>> /\ Head(b) = "/" THEN b
  ELSE IF a = <<>> \/ a[Len(a)] = "/" THEN a \o b
  ELSE a \o <<"/">> \o b

RECURSIVE SplitOn(_, _)
\* s.split(c)
SplitOn(s, c) ==
  LET at == {i \in 1..Len(s) : s[i] = c}
  IN  IF at = {} THEN <<s>>
      ELSE LET k == CHOOSE i \in at : \A j \in at : i <= j
           IN  <<SubSeq(s, 1, k - 1)>> \o SplitOn(SubSeq(s, k + 1, Len(s)), c)

RECURSIVE Walk(_, _, _)
\* The kernel's walk over the components cs from the place (up, comps): up
\* counts the steps above the starting directory.
Walk(cs, up, comps) ==
  IF cs = <<>> THEN [up |-> up, comps |-> comps]
  ELSE LET c == Head(cs)
       IN  IF c = <<>> \/ c = <<".">> THEN Walk(Tail(cs), up, comps)
           ELSE IF c = <<".", ".">>
             THEN (IF comps = <<>> THEN Walk(Tail(cs), up + 1, comps)
                   ELSE Walk(Tail(cs), up, SubSeq(comps, 1, Len(comps) - 1)))
           ELSE Walk(Tail(cs), up, Append(comps, c))

\* The place a path names: from the root (abs) or from the working directory.
Resolve(path) ==
  LET abs == path # <<>> /\ Head(path) = "/"
      w == Walk(SplitOn(path, "/"), 0, <<>>)
  IN  [abs |-> abs, up |-> IF abs THEN 0 ELSE w.up, comps |-> w.comps]

\* The directory holding place r.
Parent(r) ==
  IF r.comps = <<>> THEN r
  ELSE [r EXCEPT !.comps = SubSeq(r.comps, 1, Len(r.comps) - 1)]

\* Place r and the directories above it, up to where it starts.
Ancestors(r) == {[r EXCEPT !.comps = SubSeq(r.comps, 1, n)] : n \in 1..Len(r.comps)}

\* Whether place r lies strictly inside directory d.
Inside(r, d) ==
  /\ r.abs = d.abs /\ r.up = d.up
  /\ Len(r.comps) > Len(d.comps)
  /\ SubSeq(r.comps, 1, Len(d.comps)) = d.comps

\* ------------------------------------------------------------------- inputs

\* What the user may type at a menu with choices 1-4.
MenuInputs == {<<"1">>, <<"2">>, <<" ", "3">>, <<"4">>, <<"5">>, <<>>, <<"1", "2">>}
\* ... at the skeleton menu.
SkeletonInputs == {<<"1">>, <<"2", " ">>, <<"3">>, <<>>}
\* ... for the LeetCode problem id.
LcIdInputs == {<<"1", "3">>, <<" ", "2">>, <<>>, <<"x">>}
\* ... for the Codeforces problem.
CfInputs == {<<>>, <<"4">>, <<"A">>, <<"0", "A">>, <<"4", "A", " ">>,
             <<"sup2", "A">>, <<"1", "A", "2">>, <<"A", "4">>}
\* ... for the VJudge problem.
VjInputs == {<<>>, <<" ">>, <<"L", "-", "1">>}
\* ... for the custom folder name.
CustomInputs == {<<>>, <<"a">>, <<" ", "b">>}
\* ... for the file name.
FilenameInputs == {<<>>, <<"x">>, <<"/", "e">>, <<".", ".", "/", "e">>, <<"s", "/", "e">>}
\* ... for the extended skeleton.
ClassInputs == {<<>>, FooT}
ReturnInputs == {<<>>, VoidT, StringT}
FunctionInputs == {<<>>}
ArgTypeInputs == {<<>>, StringT}
ArgCountInputs == {<<>>, <<"x">>} \cup {IntStr(n) : n \in 0..MaxArgs}

\* The lines typed when the program is run twice: fewer, as every one is
\* typed again in the second run.
TwiceMenuInputs == {<<"1">>, <<"2">>, <<" ", "3">>, <<"4">>, <<"5">>}
TwiceSkeletonInputs == {<<"1">>, <<"2", " ">>}
TwiceLcIdInputs == {<<"1", "3">>}
TwiceCfInputs == {<<"0", "A">>, <<"4", "A", " ">>, <<"1", "A", "2">>}
TwiceVjInputs == {<<>>, <<"L", "-", "1">>}
TwiceCustomInputs == {<<"a">>}
TwiceFilenameInputs == {<<>>, <<"x">>}
TwiceClassInputs == {<<>>}
TwiceReturnInputs == {<<>>, VoidT}
TwiceArgTypeInputs == {StringT}
TwiceArgCountInputs == {<<>>, IntStr(MaxArgs)}

\* Every identifier of at most MaxLen characters over the parser's alphabet.
Alphabet == {"0", "1", "4", "A", "sup2"}
AllIdentifiers == UNION {[1..n -> Alphabet] : n \in 0..MaxLen}

\* prompt_for_int testing "default" for truth: a default of 0 is not taken.
PromptForIntTruthy(line, default) ==
  LET user_input == Strip(line)
  IN  IF user_input = <<>> /\ default \notin {NoneInt, 0}
        THEN [returns |-> TRUE, value |-> default]
      ELSE IF IntParses(user_input)
        THEN [returns |-> TRUE, value |-> IntOf(user_input)]
      ELSE [returns |-> FALSE, value |-> 0]

\* prompt_for_int on one typed line: whether it returns, and what.  default
\* NoneInt is "no default".
PromptForInt(line, default) ==
  LET user_input == Strip(line)
  IN  IF user_input = <<>> /\ default # NoneInt
        THEN [returns |-> TRUE, value |-> default]
      ELSE IF IntParses(user_input)
        THEN [returns |-> TRUE, value |-> IntOf(user_input)]
      ELSE [returns |-> FALSE, value |-> 0]

\* One pass of a menu loop: whether the stripped line is one of the choices
\* 1..n, and the choice.
MenuChoice(line, n) ==
  LET user_choice == Strip(line)
  IN  IF user_choice \in {IntStr(k) : k \in 1..n}
        THEN [returns |-> TRUE, value |-> IntOf(user_choice)]
      ELSE [returns |-> FALSE, value |-> 0]

\* input(...).strip() or default
OrDefault(line, default) == IF Strip(line) = <<>> THEN default ELSE Strip(line)

LanguageOf(lang_choice) ==
  CASE lang_choice = 1 -> "cpp" [] lang_choice = 2 -> "c"
    [] lang_choice = 3 -> "py" [] OTHER -> "java"

DefaultFilename(lang) ==
  CASE lang = "cpp" -> <<"main.cpp">> [] lang = "c" -> <<"main.c">>
    [] lang = "py" -> <<"main.py">> [] OTHER -> <<"Main.java">>

\* The folder names main() builds.
LeetcodeFolder(id) == <<"leetcode_p">> \o IntStr(id)
CodeforcesFallbackFolder(typed) == <<"codeforces_p">> \o typed
CodeforcesFolder(contest, index) == <<"codeforces_p">> \o IntStr(contest) \o index
VjudgeFolder(oj) == <<"vjudge_problem_">> \o Remove(Lower(oj), "-")
VjudgeUntitled == <<"vjudge_problem_untitled">>

\* -------------------------------------------------------------------- state

VARIABLES
  pc,               \* the place main() has reached
  exc,              \* the exception that escaped main(), "" for none
  printed,          \* the messages printed so far
  problem_type, problem_id, cf_input, contest_id, problem_index, oj_problem,
  folder_name, problem_metadata,
  language, filename, skeleton_type, extended_args, arg_count,
  file_path, code_lines,
  fs_dirs,          \* the directories that exist
  fs_files,         \* the files that exist, each with its text
  last_input,       \* the line typed at the latest prompt
  rejects,          \* how many typed lines this run has rejected
  phase,            \* the kind of the latest effect of the run
  fetch_issued,     \* whether an HTTP request has been sent
  dir_existed,      \* whether the folder existed when makedirs was called
  overwrote,        \* whether open() truncated a file that existed
  open_attempted,   \* whether open() has been called
  fs_error,         \* the file-system call that raised OSError, "" for none
  run,              \* 1 for the first run of the program, 2 for the second
  mode,             \* "single", or "same": a second run replays the first
  tape,             \* the typed lines and HTTP outcomes of the first run
  prev              \* what the first run left, once the second has begun

prog == <<problem_type, problem_id, cf_input, contest_id, problem_index, oj_problem,
          folder_name, problem_metadata, language, filename, skeleton_type,
          extended_args, arg_count, file_path, code_lines>>
opts == <<language, filename, skeleton_type, extended_args, arg_count>>
outs == <<file_path, code_lines>>
fs == <<fs_dirs, fs_files>>
fsHist == <<dir_existed, overwrote, open_attempted, fs_error>>
hist == <<fetch_issued, dir_existed, overwrote, open_attempted, fs_error>>
twice == <<run, mode, prev>>
vars == <<pc, exc, printed, prog, fs, last_input, rejects, phase, hist, twice, tape>>

NoArgs == [class_name |-> <<>>, return_type |-> <<>>, function_name |-> <<>>,
           arguments |-> <<>>]
NoPrev == [pc |-> "", folder_name |-> <<>>, file_path |-> <<>>, text |-> <<>>]
NoFiles == [f \in {} |-> <<>>]

\* A directory "a" left by an earlier session, holding a/main.cpp.
OldDirs == {Resolve(<<"a">>)}
OldFiles == (Resolve(<<"a", "/", "main.cpp">>) :> <<"old">>)

\* The state main() starts in, but for the place and the Codeforces input.
Fresh ==
  /\ exc = "" /\ printed = {}
  /\ problem_id = 0
  /\ contest_id = NoneInt /\ problem_index = Null /\ oj_problem = <<>>
  /\ folder_name = <<>> /\ problem_metadata = <<>>
  /\ language = "" /\ filename = <<>> /\ skeleton_type = 0
  /\ extended_args = NoArgs /\ arg_count = 0
  /\ file_path = <<>> /\ code_lines = <<>>
  /\ rejects = 0
  /\ fetch_issued = FALSE /\ dir_existed = FALSE /\ overwrote = FALSE
  /\ open_attempted = FALSE /\ fs_error = ""

AtStart ==
  /\ Fresh
  /\ pc = "source_menu" /\ problem_type = 0 /\ cf_input = <<>>
  /\ last_input = <<>> /\ phase = "start"

InitFs ==
  \/ fs_dirs = {} /\ fs_files = NoFiles
  \/ fs_dirs = OldDirs /\ fs_files = OldFiles

Init ==
  /\ AtStart /\ InitFs
  /\ run = 1 /\ mode = "single" /\ tape = <<>> /\ prev = NoPrev

\* The program is run, and then run again on the same machine.
InitTwice ==
  /\ AtStart /\ InitFs
  /\ run = 1 /\ mode = "same" /\ tape = <<>> /\ prev = NoPrev

\* main() with Codeforces chosen and an identifier typed, about to parse it.
InitParse ==
  /\ Fresh /\ fs_dirs = {} /\ fs_files = NoFiles
  /\ run = 1 /\ mode = "single" /\ tape = <<>> /\ prev = NoPrev
  /\ pc = "cf_parse" /\ problem_type = 2 /\ phase = "source_prompt"
  /\ cf_input \in AllIdentifiers
  /\ last_input = cf_input

\* ------------------------------------------------------------------ actions

\* The user types line x at a prompt (the second run is given the lines of
\* the first).
Typed(x) ==
  /\ run = 1 \/ (tape # <<>> /\ Head(tape).kind = "typed" /\ Head(tape).v = x)
  /\ tape' = IF mode = "single" THEN tape
             ELSE IF run = 1 THEN Append(tape, [kind |-> "typed", v |-> x])
             ELSE Tail(tape)
  /\ last_input' = x

\* A request gets outcome r (the second run gets the outcomes of the first).
Http(r) ==
  /\ run = 1 \/ (tape # <<>> /\ Head(tape).kind = "http" /\ Head(tape).v = r)
  /\ tape' = IF mode = "single" THEN tape
             ELSE IF run = 1 THEN Append(tape, [kind |-> "http", v |-> r])
             ELSE Tail(tape)
  /\ fetch_issued' = TRUE
  /\ phase' = "fetch"

\* The lines the user may type: all of them in a single run, few in two runs.
Pick(all, few) == IF mode = "single" THEN all ELSE few

\* A prompt loop prints msg and asks again.
Reject(msg) ==
  /\ rejects < MaxRejects
  /\ rejects' = rejects + 1
  /\ printed' = printed \cup {msg}
  /\ UNCHANGED <<pc, exc, prog, fs, hist, twice>>

\* An exception escapes main().
Crash(e) == pc' = "crashed" /\ exc' = e

\* Lines 172-177: the source menu.
SourceMenu ==
  /\ pc = "source_menu"
  /\ \E x \in Pick(MenuInputs, TwiceMenuInputs) :
       LET m == MenuChoice(x, 4)
       IN  /\ Typed(x)
           /\ phase' = "source_prompt"
           /\ IF m.returns
                THEN /\ problem_type' = m.value
                     /\ pc' = CASE m.value = 1 -> "lc_id" [] m.value = 2 -> "cf_input"
                                [] m.value = 3 -> "vj_input" [] OTHER -> "custom_name"
                     /\ UNCHANGED <<exc, printed, problem_id, cf_input, contest_id,
                                    problem_index, oj_problem, folder_name,
                                    problem_metadata, opts, outs, fs, rejects, hist,
                                    twice>>
                ELSE Reject("invalid_choice")

\* Lines 186-187: prompt_for_int for the LeetCode id.
LcPromptId ==
  /\ pc = "lc_id"
  /\ \E x \in Pick(LcIdInputs, TwiceLcIdInputs) :
       LET m == PromptForInt(x, NoneInt)
       IN  /\ Typed(x)
           /\ phase' = "source_prompt"
           /\ IF m.returns
                THEN /\ problem_id' = m.value
                     /\ pc' = "lc_fetch"
                     /\ UNCHANGED <<exc, printed, problem_type, cf_input, contest_id,
                                    problem_index, oj_problem, folder_name,
                                    problem_metadata, opts, outs, fs, rejects, hist,
                                    twice>>
                ELSE Reject("invalid_integer")

\* A folder name taken from the fetched title: a name that would depend on
\* what the network returns.
LcFolderNameByTitle(id, ld) ==
  IF ld.found THEN <<"leetcode_p">> \o ld.title ELSE LeetcodeFolder(id)

\* Lines 189-193: the folder name, whether or not the problem ld was found.
LcFolderName(id, ld) == LeetcodeFolder(id)

\* Lines 188-196: get_leetcode_problem and what main() makes of it.
LcFetch ==
  /\ pc = "lc_fetch"
  /\ \E r \in LeetCodeResponses :
     \E caught \in (IF r.json = "invalid" THEN JsonErrorCaught ELSE {TRUE}) :
       LET ld == GetLeetcodeProblem(r, caught)
       IN  /\ Http([r |-> r, caught |-> caught])
           /\ IF ld.raises # ""
                THEN /\ Crash(ld.raises)
                     /\ UNCHANGED <<printed, folder_name, problem_metadata>>
              ELSE IF ~ld.found
                THEN /\ pc' = "lang_menu" /\ exc' = exc
                     /\ printed' = printed \cup ld.msgs \cup {"lc_warn_main"}
                     /\ folder_name' = LcFolderName(problem_id, ld)
                     /\ UNCHANGED problem_metadata
              ELSE /\ pc' = "lang_menu" /\ exc' = exc
                   /\ printed' = printed \cup ld.msgs
                   /\ folder_name' = LcFolderName(problem_id, ld)
                   /\ problem_metadata' = << <<"title", ld.title>>,
                                             <<"difficulty", ld.difficulty>>,
                                             <<"statement", ld.content>> >>
           /\ UNCHANGED <<problem_type, problem_id, cf_input, contest_id, problem_index,
                          oj_problem, opts, outs, fs, last_input, rejects, fsHist, twice>>

\* Line 202: the Codeforces problem is typed.
CfPrompt ==
  /\ pc = "cf_input"
  /\ \E x \in Pick(CfInputs, TwiceCfInputs) :
       /\ Typed(x)
       /\ cf_input' = Strip(x)
  /\ pc' = "cf_parse"
  /\ phase' = "source_prompt"
  /\ UNCHANGED <<exc, printed, problem_type, problem_id, contest_id, problem_index,
                 oj_problem, folder_name, problem_metadata, opts, outs, fs, rejects,
                 hist, twice>>

\* Lines 203-208: the identifier is parsed and the folder named.
CfParse ==
  /\ pc = "cf_parse"
  /\ LET p == ParseCf(cf_input)
     IN  IF p.raises
           THEN /\ Crash("ValueError")
                /\ UNCHANGED <<printed, contest_id, problem_index, folder_name>>
         ELSE /\ exc' = exc
              /\ contest_id' = p.contest_id
              /\ problem_index' = p.problem_index
              /\ IF p.contest_id \in {NoneInt, 0} \/ ~Truthy(p.problem_index)
                   THEN /\ printed' = printed \cup {"cf_warn_invalid"}
                        /\ folder_name' = CodeforcesFallbackFolder(cf_input)
                        /\ pc' = "lang_menu"
                   ELSE /\ printed' = printed
                        /\ folder_name' = CodeforcesFolder(p.contest_id, p.problem_index)
                        /\ pc' = "cf_api"
  /\ UNCHANGED <<problem_type, problem_id, cf_input, oj_problem, problem_metadata, opts,
                 outs, fs, last_input, rejects, phase, hist, twice, tape>>

\* Lines 210-213: codeforces_api_fetch and what main() makes of it.
CfApiFetch ==
  /\ pc = "cf_api"
  /\ \E r \in CodeforcesResponses :
     \E caught \in (IF r.json = "invalid" THEN JsonErrorCaught ELSE {TRUE}) :
       LET meta == CodeforcesApiFetch(r, caught, contest_id, problem_index)
       IN  /\ Http([r |-> r, caught |-> caught])
           /\ printed' = printed \cup meta.msgs
           /\ IF meta.raises # ""
                THEN Crash(meta.raises) /\ UNCHANGED problem_metadata
              ELSE IF ~meta.found
                THEN pc' = "cf_scrape" /\ exc' = exc /\ UNCHANGED problem_metadata
              ELSE IF meta.tags = NullList
                THEN /\ Crash("TypeError")
                     /\ problem_metadata' = Append(problem_metadata, <<"title", meta.title>>)
              ELSE /\ pc' = "cf_scrape" /\ exc' = exc
                   /\ problem_metadata' =
                        problem_metadata \o << <<"title", meta.title>>,
                                               <<"tags", JoinWith(<<", ">>, meta.tags)>> >>
  /\ UNCHANGED <<problem_type, problem_id, cf_input, contest_id, problem_index,
                 oj_problem, folder_name, opts, outs, fs, last_input, rejects, fsHist,
                 twice>>

\* Lines 215-219: scrape_codeforces_statement and what main() makes of it.
CfScrape ==
  /\ pc = "cf_scrape"
  /\ \E r \in PageResponses :
       LET st == ScrapeStatement(r)
       IN  /\ Http(r)
           /\ IF st.found /\ Truthy(st.text)
                THEN /\ problem_metadata' = Append(problem_metadata, <<"statement", st.text>>)
                     /\ printed' = printed \cup st.msgs
                ELSE /\ printed' = printed \cup st.msgs \cup {"cf_warn_scrape"}
                     /\ UNCHANGED problem_metadata
  /\ pc' = "lang_menu"
  /\ UNCHANGED <<exc, problem_type, problem_id, cf_input, contest_id, problem_index,
                 oj_problem, folder_name, opts, outs, fs, last_input, rejects, fsHist,
                 twice>>

\* Lines 226-231: the VJudge problem is typed and the folder named.
VjPrompt ==
  /\ pc = "vj_input"
  /\ \E x \in Pick(VjInputs, TwiceVjInputs) :
       /\ Typed(x)
       /\ oj_problem' = Strip(x)
       /\ IF Strip(x) = <<>>
            THEN /\ printed' = printed \cup {"vj_warn_no_input"}
                 /\ folder_name' = VjudgeUntitled
                 /\ pc' = "lang_menu"
            ELSE /\ printed' = printed
                 /\ folder_name' = VjudgeFolder(Strip(x))
                 /\ pc' = "vj_scrape"
  /\ phase' = "source_prompt"
  /\ UNCHANGED <<exc, problem_type, problem_id, cf_input, contest_id, problem_index,
                 problem_metadata, opts, outs, fs, rejects, hist, twice>>

\* Lines 232-237: scrape_vjudge_statement and what main() makes of it.
VjScrape ==
  /\ pc = "vj_scrape"
  /\ \E r \in PageResponses :
       LET st == ScrapeStatement(r)
       IN  /\ Http(r)
           /\ IF st.found /\ Truthy(st.text)
                THEN /\ problem_metadata' = << <<"title", oj_problem>>,
                                               <<"statement", st.text>> >>
                     /\ printed' = printed \cup st.msgs
                ELSE /\ printed' = printed \cup st.msgs \cup {"vj_warn_scrape"}
                     /\ UNCHANGED problem_metadata
  /\ pc' = "lang_menu"
  /\ UNCHANGED <<exc, problem_type, problem_id, cf_input, contest_id, problem_index,
                 oj_problem, folder_name, opts, outs, fs, last_input, rejects, fsHist,
                 twice>>

\* Lines 243-248: the custom folder name.
CustomName ==
  /\ pc = "custom_name"
  /\ \E x \in Pick(CustomInputs, TwiceCustomInputs) :
       /\ Typed(x)
       /\ phase' = "source_prompt"
       /\ IF Strip(x) # <<>>
            THEN /\ folder_name' = Strip(x)
                 /\ pc' = "lang_menu"
                 /\ UNCHANGED <<exc, printed, problem_type, problem_id, cf_input,
                                contest_id, problem_index, oj_problem, problem_metadata,
                                opts, outs, fs, rejects, hist, twice>>
            ELSE Reject("empty_folder_name")

srcs == <<problem_type, problem_id, cf_input, contest_id, problem_index, oj_problem,
          folder_name, problem_metadata>>

\* Lines 259-277: the language menu.
LangMenu ==
  /\ pc = "lang_menu"
  /\ \E x \in Pick(MenuInputs, TwiceMenuInputs) :
       LET m == MenuChoice(x, 4)
       IN  /\ Typed(x)
           /\ phase' = "option_prompt"
           /\ IF m.returns
                THEN /\ language' = LanguageOf(m.value)
                     /\ pc' = "filename"
                     /\ UNCHANGED <<exc, printed, srcs, filename, skeleton_type,
                                    extended_args, arg_count, outs, fs, rejects, hist,
                                    twice>>
                ELSE Reject("invalid_choice")

\* Lines 279-281: the file name, or the language's default.
FilenamePrompt ==
  /\ pc = "filename"
  /\ \E x \in Pick(FilenameInputs, TwiceFilenameInputs) :
       /\ Typed(x)
       /\ filename' = OrDefault(x, DefaultFilename(language))
  /\ pc' = "skel_menu"
  /\ phase' = "option_prompt"
  /\ UNCHANGED <<exc, printed, srcs, language, skeleton_type, extended_args, arg_count,
                 outs, fs, rejects, hist, twice>>

\* Where main() goes after the skeleton menu: the extended prompts are for
\* C++ and Java only.
AfterSkeleton(skel, lang) ==
  IF skel = 1 /\ lang \in {"cpp", "java"} THEN "ext_class" ELSE "mkdir"

\* Lines 290-305: the skeleton menu.
SkeletonMenu ==
  /\ pc = "skel_menu"
  /\ \E x \in Pick(SkeletonInputs, TwiceSkeletonInputs) :
       LET m == MenuChoice(x, 2)
       IN  /\ Typed(x)
           /\ phase' = "option_prompt"
           /\ IF m.returns
                THEN /\ skeleton_type' = m.value
                     /\ pc' = AfterSkeleton(m.value, language)
                     /\ UNCHANGED <<exc, printed, srcs, language, filename,
                                    extended_args, arg_count, outs, fs, rejects, hist,
                                    twice>>
                ELSE Reject("invalid_choice")

\* Lines 307 and 315: the class name.
ExtClass ==
  /\ pc = "ext_class"
  /\ \E x \in Pick(ClassInputs, TwiceClassInputs) :
       /\ Typed(x)
       /\ extended_args' = [extended_args EXCEPT !.class_name = OrDefault(x, SolutionT)]
  /\ pc' = "ext_return"
  /\ phase' = "option_prompt"
  /\ UNCHANGED <<exc, printed, srcs, language, filename, skeleton_type, arg_count, outs,
                 fs, rejects, hist, twice>>

\* Lines 308 and 316: the return type.
ExtReturn ==
  /\ pc = "ext_return"
  /\ \E x \in Pick(ReturnInputs, TwiceReturnInputs) :
       /\ Typed(x)
       /\ extended_args' = [extended_args EXCEPT !.return_type = OrDefault(x, IntT)]
  /\ pc' = "ext_function"
  /\ phase' = "option_prompt"
  /\ UNCHANGED <<exc, printed, srcs, language, filename, skeleton_type, arg_count, outs,
                 fs, rejects, hist, twice>>

\* Lines 309 and 317: the function name.
ExtFunction ==
  /\ pc = "ext_function"
  /\ \E x \in FunctionInputs :
       /\ Typed(x)
       /\ extended_args' = [extended_args EXCEPT !.function_name = OrDefault(x, TestT)]
  /\ pc' = "ext_argc"
  /\ phase' = "option_prompt"
  /\ UNCHANGED <<exc, printed, srcs, language, filename, skeleton_type, arg_count, outs,
                 fs, rejects, hist, twice>>

\* Lines 310 and 318: prompt_for_int for the number of arguments, default 0.
ExtArgCount ==
  /\ pc = "ext_argc"
  /\ \E x \in Pick(ArgCountInputs, TwiceArgCountInputs) :
       LET m == PromptForInt(x, 0)
       IN  /\ Typed(x)
           /\ phase' = "option_prompt"
           /\ IF m.returns
                THEN /\ arg_count' = m.value
                     /\ pc' = IF m.value > 0 THEN "ext_arg" ELSE "mkdir"
                     /\ UNCHANGED <<exc, printed, srcs, language, filename, skeleton_type,
                                    extended_args, outs, fs, rejects, hist, twice>>
                ELSE Reject("invalid_integer")

\* Lines 311-313 and 319-321: one pass of the loop over the arguments.
ExtArgType ==
  /\ pc = "ext_arg"
  /\ \E x \in Pick(ArgTypeInputs, TwiceArgTypeInputs) :
       /\ Typed(x)
       /\ extended_args' =
            [extended_args EXCEPT !.arguments = Append(@, OrDefault(x, IntT))]
  /\ pc' = IF Len(extended_args.arguments) + 1 < arg_count THEN "ext_arg" ELSE "mkdir"
  /\ phase' = "option_prompt"
  /\ UNCHANGED <<exc, printed, srcs, language, filename, skeleton_type, arg_count, outs,
                 fs, rejects, hist, twice>>

\* Whether a directory is there: the root and the working directory always are.
DirExists(r) == r.comps = <<>> \/ r \in fs_dirs

\* The except branch without its sys.exit(1): main() would go on.
MakedirsErrorGoesOn == "render"

\* Lines 330-332: where the except branch of makedirs leaves main().
AfterMakedirsError == "exit1"

\* Lines 328-334: os.makedirs(folder_name, exist_ok=True), then the path.
MakeDirs ==
  /\ pc = "mkdir"
  /\ LET d == Resolve(folder_name)
         blocked == \E a \in Ancestors(d) : a \in DOMAIN fs_files
     IN  \E ok \in BOOLEAN :
           /\ ok => ~blocked
           /\ dir_existed' = DirExists(d)
           /\ IF ok
                THEN /\ fs_dirs' = fs_dirs \cup Ancestors(d)
                     /\ file_path' = PathJoin(folder_name, filename)
                     /\ pc' = "render"
                     /\ UNCHANGED <<printed, fs_error>>
                ELSE /\ printed' = printed \cup {"mkdir_error"}
                     /\ fs_error' = "mkdir"
                     /\ pc' = AfterMakedirsError
                     /\ UNCHANGED <<fs_dirs, file_path>>
  /\ phase' = "mkdir"
  /\ last_input' = <<>>
  /\ UNCHANGED <<exc, srcs, opts, code_lines, fs_files, rejects, fetch_issued,
                 overwrote, open_attempted, twice, tape>>

\* The folder created only once the code is built: the steps out of order.
RenderThenMakedirs == "mkdir"

\* Line 535: what follows the building of code_lines.
AfterRender == "write"

\* Lines 339-530: code_lines is built.
Render ==
  /\ pc = "render"
  /\ LET e == MetadataRaises(problem_metadata)
     IN  IF e # ""
           THEN Crash(e) /\ UNCHANGED code_lines
         ELSE /\ code_lines' = RenderCode(problem_metadata, language, skeleton_type,
                                          extended_args)
              /\ pc' = AfterRender /\ exc' = exc
  /\ phase' = "render"
  /\ UNCHANGED <<printed, srcs, opts, file_path, fs, last_input, rejects, hist, twice,
                 tape>>

\* The file opened with "a": the text is put after what the file held.
OpenAppend(old, text) == old \o text

\* What open(file_path, "w") and the writes leave in a file that held old.
OpenWrite(old, text) == text

\* Lines 535-542: the file is opened and written, or the run exits with 1.
WriteFile ==
  /\ pc = "write"
  /\ LET f == Resolve(file_path)
         can_open == f.comps # <<>> /\ DirExists(Parent(f)) /\ f \notin fs_dirs
                     /\ Parent(f) \notin DOMAIN fs_files
         old == IF f \in DOMAIN fs_files THEN fs_files[f] ELSE <<>>
     IN  \E outcome \in {"written", "open_fails", "write_fails"} :
           /\ outcome # "open_fails" => can_open
           /\ CASE outcome = "written" ->
                     /\ fs_files' = (f :> OpenWrite(old, FileText(code_lines))) @@ fs_files
                     /\ overwrote' = (f \in DOMAIN fs_files)
                     /\ printed' = printed \cup {"success"}
                     /\ pc' = "done"
                     /\ UNCHANGED fs_error
                [] outcome = "write_fails" ->
                     /\ fs_files' = (f :> OpenWrite(old, <<>>)) @@ fs_files
                     /\ overwrote' = (f \in DOMAIN fs_files)
                     /\ printed' = printed \cup {"write_error"}
                     /\ fs_error' = "write"
                     /\ pc' = "exit1"
                [] OTHER ->
                     /\ printed' = printed \cup {"write_error"}
                     /\ fs_error' = "open"
                     /\ pc' = "exit1"
                     /\ UNCHANGED <<fs_files, overwrote>>
  /\ open_attempted' = TRUE
  /\ phase' = "write"
  /\ UNCHANGED <<exc, srcs, opts, outs, fs_dirs, last_input, rejects, fetch_issued,
                 dir_existed, twice, tape>>

\* The text of the file at path p, <<>> when there is none.
TextAt(p) ==
  LET f == Resolve(p) IN IF f \in DOMAIN fs_files THEN fs_files[f] ELSE <<>>

\* The run has ended with its file written and the program is started again:
\* the files stay.
Restart ==
  /\ pc = "done"
  /\ mode # "single" /\ run = 1
  /\ run' = 2
  /\ prev' = [pc |-> pc, folder_name |-> folder_name, file_path |-> file_path,
              text |-> TextAt(file_path)]
  /\ pc' = "source_menu" /\ exc' = "" /\ printed' = {}
  /\ problem_type' = 0 /\ problem_id' = 0 /\ cf_input' = <<>>
  /\ contest_id' = NoneInt /\ problem_index' = Null /\ oj_problem' = <<>>
  /\ folder_name' = <<>> /\ problem_metadata' = <<>>
  /\ language' = "" /\ filename' = <<>> /\ skeleton_type' = 0
  /\ extended_args' = NoArgs /\ arg_count' = 0
  /\ file_path' = <<>> /\ code_lines' = <<>>
  /\ last_input' = <<>> /\ rejects' = 0 /\ phase' = "start"
  /\ fetch_issued' = FALSE /\ dir_existed' = FALSE /\ overwrote' = FALSE
  /\ open_attempted' = FALSE /\ fs_error' = ""
  /\ UNCHANGED <<fs, mode, tape>>

Next ==
  \/ SourceMenu \/ LcPromptId \/ LcFetch
  \/ CfPrompt \/ CfParse \/ CfApiFetch \/ CfScrape
  \/ VjPrompt \/ VjScrape \/ CustomName
  \/ LangMenu \/ FilenamePrompt \/ SkeletonMenu
  \/ ExtClass \/ ExtReturn \/ ExtFunction \/ ExtArgCount \/ ExtArgType
  \/ MakeDirs \/ Render \/ WriteFile

NextTwice == Next \/ Restart

\* One run of the program.
Spec == Init /\ [][Next]_vars

\* Two runs, one after the other.
SpecTwice == InitTwice /\ [][NextTwice]_vars

\* The identifier parser, on every identifier.
SpecParse == InitParse /\ [][CfParse]_vars

\* ------------------------------------------------------------------- claims

\* Whether code_lines has been built.
Rendered == phase \in {"render", "write"} /\ exc = ""

\* Whether the run has reached the creation of the directory.
ReachedMakedirs == pc = "mkdir" \/ phase \in {"mkdir", "render", "write"}

\* C1: whatever a request of a fetching source returns, no exception escapes
\* main(): after every fetch the run is at a later place of main() with no
\* exception raised, and when it fetched nothing it has printed a warning.
C1_FetchFailuresAreCaught ==
  fetch_issued =>
    /\ exc = ""
    /\ (pc = "lang_menu" /\ problem_metadata = <<>>) =>
         printed \cap {"lc_warn_main", "cf_warn_scrape", "vj_warn_scrape"} # {}

\* C2: a file-system error in makedirs, open or write ends the run with exit
\* status 1 and without the success message, and after a failed makedirs
\* open() is never called.
C2_FsErrorsExitWithOne ==
  /\ fs_error # "" => (pc = "exit1" /\ "success" \notin printed)
  /\ fs_error = "mkdir" => (~open_attempted /\ file_path = <<>>)
  /\ pc = "exit1" => fs_error # ""

C2_Witness ==
  /\ pc = "exit1" /\ fs_error = "mkdir" /\ "mkdir_error" \in printed

\* The malformed identifiers C3 lists: no digit, no index, contest id 0, or a
\* character that isdigit() accepts and int() rejects.
Malformed(s) ==
  LET d == DigitsPart(s)
  IN  \/ d = <<>>
      \/ IndexPart(s) = <<>>
      \/ \E i \in 1..Len(d) : ~IsDecimal(d[i])
      \/ DecValue(d, 0) = 0

\* C3: with Codeforces chosen, every malformed identifier gives the folder
\* codeforces_p<typed text> and a warning, no exception, and the run goes on
\* to the language menu.
C3_MalformedGivesFallback ==
  (problem_type = 2 /\ pc \notin {"cf_input", "cf_parse"} /\ Malformed(cf_input)) =>
    /\ exc = ""
    /\ folder_name = <<"codeforces_p">> \o cf_input
    /\ "cf_warn_invalid" \in printed
    /\ ~fetch_issued

\* C4: a second run given the typed lines and the HTTP outcomes of the first
\* names the same folder and the same file and leaves the same text in it.
C4_SameInputsSameOutput ==
  (run = 2 /\ pc = "done") =>
    /\ folder_name = prev.folder_name
    /\ file_path = prev.file_path
    /\ TextAt(file_path) = prev.text
    /\ TextAt(file_path) = FileText(code_lines)

C4_Witness ==
  /\ run = 2 /\ pc = "done" /\ problem_metadata # <<>> /\ skeleton_type = 1
  /\ prev.text # <<>>

\* C5: a run that ends with the file written has written it inside its
\* folder, which did not exist before, and has overwritten no file.
C5_WritesInsideNewFolder ==
  pc = "done" =>
    /\ Inside(Resolve(file_path), Resolve(folder_name))
    /\ ~dir_existed
    /\ ~overwrote

\* The comment marker of a language.
CommentMarker(lang) == IF lang = "py" THEN "#" ELSE "//"
IsCommentLine(lang, line) == line # <<>> /\ Head(line) = CommentMarker(lang)

\* C6: with metadata fetched, code_lines is a block of lines that are all
\* comments of the chosen language and then the skeleton of that language;
\* with none fetched it is the skeleton alone.
C6_MetadataBlockIsComments ==
  Rendered /\ pc # "render" =>
    LET sk == Skeleton(language, skeleton_type, extended_args)
        n == Len(code_lines) - Len(sk)
    IN  /\ n >= 0
        /\ SubSeq(code_lines, n + 1, Len(code_lines)) = sk
        /\ (problem_metadata = <<>>) = (n = 0)
        /\ \A i \in 1..n : IsCommentLine(language, code_lines[i])

PhaseRank(p) ==
  CASE p = "start" -> 0 [] p = "source_prompt" -> 1 [] p = "fetch" -> 2
    [] p = "option_prompt" -> 3 [] p = "mkdir" -> 4 [] p = "render" -> 5
    [] OTHER -> 6

\* C7 as stated: once a fetch has been issued, no prompt is issued.
C7_NoPromptAfterFetch ==
  fetch_issued => phase \notin {"source_prompt", "option_prompt"}

\* One step of a run keeps the order of the phases, and none follows the
\* file write.
C7_Step ==
  /\ PhaseRank(phase') >= PhaseRank(phase)
  /\ phase # "write"

\* C7 as amended: the phases come in the order source prompts, fetches,
\* language/file/skeleton prompts, directory creation, rendering, file write,
\* and no step goes back to an earlier one; no step follows the file write.
C7_PhasesInOrder == [][C7_Step]_vars

C7_Witness ==
  /\ pc = "done" /\ phase = "write" /\ fetch_issued /\ rejects > 0

\* The result C8 gives for an identifier: the value of its leading run of
\* digits and the rest as index when both are non-empty, None and None
\* otherwise.
LeadingDigits(s) ==
  LET RECURSIVE lead(_)
      lead(t) == IF t # <<>> /\ IsDigit(Head(t)) THEN <<Head(t)>> \o lead(Tail(t))
                 ELSE <<>>
  IN  lead(s)

ReferenceParse(s) ==
  LET d == LeadingDigits(s)
      rest == SubSeq(s, Len(d) + 1, Len(s))
  IN  IF d # <<>> /\ rest # <<>> /\ \A i \in 1..Len(d) : IsDecimal(d[i])
        THEN <<DecValue(d, 0), rest>>
      ELSE <<NoneInt, Null>>

\* C8: parse_codeforces_contest_and_index returns what the reference gives.
C8_ParseAgreesWithReference ==
  (problem_type = 2 /\ pc \notin {"cf_input", "cf_parse"}) =>
    /\ exc = ""
    /\ <<contest_id, problem_index>> = ReferenceParse(cf_input)

\* The places of main() that are validation loops.
LoopPlaces == {"source_menu", "lc_id", "custom_name", "lang_menu", "skel_menu", "ext_argc"}

\* Whether C9 has the loop at place p accept the typed line.
Accepts(p, line) ==
  LET t == Strip(line)
  IN  CASE p \in {"source_menu", "lang_menu"} -> t \in {<<"1">>, <<"2">>, <<"3">>, <<"4">>}
        [] p = "skel_menu" -> t \in {<<"1">>, <<"2">>}
        [] p = "custom_name" -> t # <<>>
        [] p = "lc_id" -> IntParses(t)
        [] OTHER -> t = <<>> \/ IntParses(t)

\* The error the loop at place p prints on a line it rejects.
ErrorOf(p) ==
  CASE p \in {"source_menu", "lang_menu", "skel_menu"} -> "invalid_choice"
    [] p = "custom_name" -> "empty_folder_name"
    [] OTHER -> "invalid_integer"

\* What C9 asks of one step taken at a validation loop.
C9_Step ==
  pc \in LoopPlaces =>
    LET t == Strip(last_input')
    IN  IF Accepts(pc, last_input')
          THEN /\ pc' # pc
               /\ printed' = printed
               /\ pc = "source_menu" => problem_type' = IntOf(t)
               /\ pc = "lang_menu" => language' = LanguageOf(IntOf(t))
               /\ pc = "skel_menu" => skeleton_type' = IntOf(t)
               /\ pc = "custom_name" => folder_name' = t
               /\ pc = "lc_id" => problem_id' = IntOf(t)
               /\ pc = "ext_argc" => arg_count' = (IF t = <<>> THEN 0 ELSE IntOf(t))
          ELSE /\ pc' = pc
               /\ printed' = printed \cup {ErrorOf(pc)}
               /\ UNCHANGED <<exc, prog, fs>>

\* C9: a pass of a validation loop on an accepted line leaves the loop with
\* the value the line stands for (the default 0 for an empty line at the
\* argument count); on any other line it prints an error, stays in the loop
\* and changes nothing else of the program.
C9_LoopsReturnOnlyAccepted == [][C9_Step]_vars

C9_Witness ==
  /\ pc = "mkdir" /\ language = "cpp" /\ skeleton_type = 1
  /\ last_input = <<>> /\ arg_count = 0
  /\ "invalid_integer" \in printed

\* The folder name C10 gives for the source and the typed input.
ExpectedFolder ==
  CASE problem_type = 1 -> <<"leetcode_p">> \o IntStr(problem_id)
    [] problem_type = 2 ->
         (IF contest_id \in {NoneInt, 0} THEN <<"codeforces_p">> \o cf_input
          ELSE <<"codeforces_p">> \o IntStr(contest_id) \o problem_index)
    [] problem_type = 3 ->
         (IF oj_problem = <<>> THEN <<"vjudge_problem_untitled">>
          ELSE <<"vjudge_problem_">> \o Remove(Lower(oj_problem), "-"))
    [] OTHER -> folder_name

\* C10: in every run that reaches the creation of the directory the folder
\* name is not empty and is the one the source and the typed input give,
\* whatever the requests returned.
C10_FolderFromInputsOnly ==
  ReachedMakedirs =>
    /\ folder_name # <<>>
    /\ folder_name = ExpectedFolder
    /\ problem_type = 4 => (folder_name = Strip(folder_name) /\ ~fetch_issued)

C10_Witness ==
  /\ pc = "mkdir" /\ problem_type = 1 /\ problem_metadata # <<>>
  /\ folder_name = <<"leetcode_p", "1", "3">>

====
